---- MODULE Spec2Model ----
(***************************************************************************)
(* Model of src/ast_builder.rs: the QueryBlock clause chain, the four      *)
(* statement factories, the three append operations and compile_statement. *)
(* A Rust String is a sequence of one-character strings; Option<T> is a    *)
(* sequence of length 0 (None) or 1 (Some); a Box<QueryBlock> is the       *)
(* nested record it owns.                                                  *)
(***************************************************************************)
EXTENDS Integers, Sequences, FiniteSets, TLC

VARIABLES query, compiled, ncomp, model, factory, calls, panicked

vars == <<query, compiled, ncomp, model, factory, calls, panicked>>

\* ------------------------------------------------------------------ bounds
MaxFields == 2
MaxAppends == 2
MaxCompiles == 2
MaxNodes == 3

\* ------------------------------------------------------------------ Option
None == <<>>
Some(x) == <<x>>
is_some(o) == Len(o) = 1
unwrap(o) == o[1]

\* ------------------------------------------------------------------ types
StatementType == {"Select", "Update", "Delete", "Insert"}

QueryBlock(part, next, kind) ==
    [query_part |-> part, secondary_part |-> next, statement_type |-> kind]

Model(name, fields) == [name |-> name, fields |-> fields]

\* ------------------------------------------------------------------ strings
RECURSIVE join(_, _)
\* [String]::join(sep): the elements in order, sep between neighbours
join(strs, sep) ==
    IF Len(strs) = 0 THEN <<>>
    ELSE IF Len(strs) = 1 THEN strs[1]
    ELSE strs[1] \o sep \o join(Tail(strs), sep)

CommaSpace == <<",", " ">>

\* ------------------------------------------------------------------ factories
\* select that drops the field list
select_ignoring_fields(m) ==
    QueryBlock(<<"S","E","L","E","C","T"," ","*"," ","F","R","O","M"," ">> \o m.name,
               None, "Select")

select(m) ==
    IF is_some(m.fields)
    THEN QueryBlock(<<"S","E","L","E","C","T"," ">> \o join(unwrap(m.fields), CommaSpace)
                      \o <<" ","F","R","O","M"," ">> \o m.name,
                    None, "Select")
    ELSE QueryBlock(<<"S","E","L","E","C","T"," ","*"," ","F","R","O","M"," ">> \o m.name,
                    None, "Select")

\* update without the fields check
update_never_panics(m) == FALSE

\* update that also rejects an empty field list
update_panics_on_empty(m) == ~is_some(m.fields) \/ Len(unwrap(m.fields)) = 0

\* the None arm of update's match: panic!("Update query must have fields")
update_panics(m) == ~is_some(m.fields)

update(m) == QueryBlock(<<"U","P","D","A","T","E"," ">> \o m.name, None, "Update")

delete(m) ==
    QueryBlock(<<"D","E","L","E","T","E"," ","F","R","O","M"," ">> \o m.name, None, "Delete")

insert(m) ==
    IF is_some(m.fields)
    THEN QueryBlock(<<"I","N","S","E","R","T"," ","I","N","T","O"," ">> \o m.name
                      \o <<" ","(">> \o join(unwrap(m.fields), CommaSpace) \o <<")">>,
                    None, "Insert")
    ELSE QueryBlock(<<"I","N","S","E","R","T"," ","I","N","T","O"," ">> \o m.name,
                    None, "Insert")

\* ------------------------------------------------------------------ tail walk
\* the walk left out: the head is taken for the latest node
traverse_stays_at_head(statement) == 0

RECURSIVE traverse_to_the_latest_node(_)
\* The &mut QueryBlock the loop ends on, as the number of secondary_part
\* links followed from the head.
traverse_to_the_latest_node(statement) ==
    IF is_some(statement.secondary_part)
    THEN 1 + traverse_to_the_latest_node(unwrap(statement.secondary_part))
    ELSE 0

RECURSIVE set_secondary_part(_, _, _)
\* latest_node.secondary_part = Some(Box::new(query_block)), written through
\* the reference that lies `ref` links below the head
set_secondary_part(statement, ref, query_block) ==
    IF ref = 0
    THEN [statement EXCEPT !.secondary_part = Some(query_block)]
    ELSE [statement EXCEPT !.secondary_part =
              Some(set_secondary_part(unwrap(statement.secondary_part), ref - 1, query_block))]

\* ------------------------------------------------------------------ appends
\* values joined by "," alone
values_str_tight(vals) == <<"V","A","L","U","E","S"," ","(">> \o join(vals, <<",">>) \o <<")">>

values_str(vals) == <<"V","A","L","U","E","S"," ","(">> \o join(vals, CommaSpace) \o <<")">>

\* a new node always tagged Select
new_node_kind_select(self) == "Select"

\* the kind given to the node an append creates: self.statement_type.clone()
new_node_kind(self) == self.statement_type

values(self, vals) ==
    set_secondary_part(self, traverse_to_the_latest_node(self),
                       QueryBlock(values_str(vals), None, new_node_kind(self)))

\* arguments.iter(): the entries of the HashMap, each once, in an order the
\* hasher picks
HashMapIter(arguments) ==
    {s \in [1..Cardinality(arguments) -> arguments] :
        \A i, j \in 1..Cardinality(arguments) : i # j => s[i] # s[j]}

\* "{}={}" for "{} = {}"
pair_str_tight(entry) == entry[1] \o <<"=">> \o entry[2]

\* format!("{} = {}", key, value)
pair_str(entry) == entry[1] \o <<" ","="," ">> \o entry[2]

set_clause_str(order) ==
    <<"S","E","T"," ">> \o join([i \in 1..Len(order) |-> pair_str(order[i])], CommaSpace)

set(self, order) ==
    set_secondary_part(self, traverse_to_the_latest_node(self),
                       QueryBlock(set_clause_str(order), None, new_node_kind(self)))

where_clause_str(cond) == <<"W","H","E","R","E"," ">> \o cond

where_clause(self, cond) ==
    set_secondary_part(self, traverse_to_the_latest_node(self),
                       QueryBlock(where_clause_str(cond), None, new_node_kind(self)))

\* ------------------------------------------------------------------ compiler
RECURSIVE helper_no_last_separator(_, _)
\* the None arm returning acc + query_part, separator forgotten
helper_no_last_separator(statement, acc) ==
    IF is_some(statement.secondary_part)
    THEN helper_no_last_separator(unwrap(statement.secondary_part),
                                  acc \o <<" ">> \o statement.query_part)
    ELSE acc \o statement.query_part

RECURSIVE helper(_, _)
helper(statement, acc) ==
    IF is_some(statement.secondary_part)
    THEN helper(unwrap(statement.secondary_part), acc \o <<" ">> \o statement.query_part)
    ELSE acc \o <<" ">> \o statement.query_part

\* s[1..] panics when 1 is past the end of s
slice_from_1_panics(s) == Len(s) < 1

\* the [1..] slice left out
slice_from_0(s) == s

slice_from_1(s) == SubSeq(s, 2, Len(s))

compile_statement(statement) == slice_from_1(helper(statement, <<>>))

compile_statement_panics(statement) == slice_from_1_panics(helper(statement, <<>>))

\* ------------------------------------------------------------------ inputs
RECURSIVE SeqsUpTo(_, _)
SeqsUpTo(S, n) ==
    IF n = 0 THEN {<<>>}
    ELSE SeqsUpTo(S, n - 1) \cup {Append(q, x) : q \in SeqsUpTo(S, n - 1), x \in S}

Names == {<<"t">>, <<"u","s">>}
FieldNames == {<<"i","d">>, <<"n">>}
FieldOptions == {None} \cup {Some(fs) : fs \in SeqsUpTo(FieldNames, MaxFields)}
Models == {Model(n, f) : n \in Names, f \in FieldOptions}

ValueLists == {<<>>, <<<<"1">>>>, <<<<"1">>, <<"J">>>>}
Conditions == {<<>>, <<"i"," ","="," ","1">>, <<"x","\t">>}
ArgumentMaps == { {},
                  {<< <<"i">>, <<"2">> >>},
                  {<< <<"n">>, <<"J">> >>, << <<"i">>, <<>> >>} }

\* texts of hand-built QueryBlock values (the struct's fields are pub)
Texts == {<<>>, <<" ">>, <<"a">>, <<"b"," ">>}

RECURSIVE LinkedBlocks(_, _)
\* the chain whose nodes carry the given texts, head first
LinkedBlocks(texts, kind) ==
    IF Len(texts) = 1 THEN QueryBlock(texts[1], None, kind)
    ELSE QueryBlock(texts[1], Some(LinkedBlocks(Tail(texts), kind)), kind)

LiteralChains ==
    {LinkedBlocks(ts, k) : ts \in SeqsUpTo(Texts, MaxNodes) \ {<<>>}, k \in StatementType}

\* ------------------------------------------------------------------ state
Init ==
    /\ query = None
    /\ compiled = None
    /\ ncomp = 0
    /\ model = None
    /\ factory = "none"
    /\ calls = <<>>
    /\ panicked = FALSE

Fresh == factory = "none" /\ ~panicked

Call(op, arg, frag) == [op |-> op, arg |-> arg, frag |-> frag]

Select ==
    /\ Fresh
    /\ \E m \in Models :
        /\ model' = Some(m)
        /\ query' = Some(select(m))
    /\ factory' = "select"
    /\ UNCHANGED <<compiled, ncomp, calls, panicked>>

Update ==
    /\ Fresh
    /\ \E m \in Models :
        /\ model' = Some(m)
        /\ IF update_panics(m)
           THEN query' = None /\ panicked' = TRUE
           ELSE query' = Some(update(m)) /\ panicked' = FALSE
    /\ factory' = "update"
    /\ UNCHANGED <<compiled, ncomp, calls>>

Delete ==
    /\ Fresh
    /\ \E m \in Models :
        /\ model' = Some(m)
        /\ query' = Some(delete(m))
    /\ factory' = "delete"
    /\ UNCHANGED <<compiled, ncomp, calls, panicked>>

Insert ==
    /\ Fresh
    /\ \E m \in Models :
        /\ model' = Some(m)
        /\ query' = Some(insert(m))
    /\ factory' = "insert"
    /\ UNCHANGED <<compiled, ncomp, calls, panicked>>

CanAppend == is_some(query) /\ ~panicked /\ Len(calls) < MaxAppends

Values ==
    /\ CanAppend
    /\ \E vals \in ValueLists :
        /\ query' = Some(values(unwrap(query), vals))
        /\ calls' = Append(calls, Call("values", vals, values_str(vals)))
    /\ ncomp' = 0
    /\ UNCHANGED <<compiled, model, factory, panicked>>

Set ==
    /\ CanAppend
    /\ \E arguments \in ArgumentMaps : \E order \in HashMapIter(arguments) :
        /\ query' = Some(set(unwrap(query), order))
        /\ calls' = Append(calls, Call("set", arguments, set_clause_str(order)))
    /\ ncomp' = 0
    /\ UNCHANGED <<compiled, model, factory, panicked>>

WhereClause ==
    /\ CanAppend
    /\ \E cond \in Conditions :
        /\ query' = Some(where_clause(unwrap(query), cond))
        /\ calls' = Append(calls, Call("where_clause", cond, where_clause_str(cond)))
    /\ ncomp' = 0
    /\ UNCHANGED <<compiled, model, factory, panicked>>

\* compile_statement taking the chain by value: the caller's chain is gone
Compile_consuming ==
    /\ is_some(query)
    /\ ~panicked
    /\ ncomp < MaxCompiles
    /\ compiled' = Some(compile_statement(unwrap(query)))
    /\ ncomp' = ncomp + 1
    /\ query' = None
    /\ UNCHANGED <<model, factory, calls, panicked>>

Compile ==
    /\ is_some(query)
    /\ ~panicked
    /\ ncomp < MaxCompiles
    /\ IF compile_statement_panics(unwrap(query))
       THEN compiled' = None /\ panicked' = TRUE
       ELSE compiled' = Some(compile_statement(unwrap(query))) /\ panicked' = FALSE
    /\ ncomp' = ncomp + 1
    /\ UNCHANGED <<query, model, factory, calls>>

Next ==
    \/ Select
    \/ Update
    \/ Delete
    \/ Insert
    \/ Values
    \/ Set
    \/ WhereClause
    \/ Compile

Spec == Init /\ [][Next]_vars

\* compile_statement applied to arbitrary hand-built chains
InitCompile ==
    /\ query \in {Some(c) : c \in LiteralChains}
    /\ compiled = None
    /\ ncomp = 0
    /\ model = None
    /\ factory = "literal"
    /\ calls = <<>>
    /\ panicked = FALSE

NextCompile == Compile

SpecCompile == InitCompile /\ [][NextCompile]_vars

\* ------------------------------------------------------------------ observers
RECURSIVE NodeTexts(_)
\* the query_part of every node, head first
NodeTexts(statement) ==
    IF statement.secondary_part = None THEN <<statement.query_part>>
    ELSE <<statement.query_part>> \o NodeTexts(statement.secondary_part[1])

RECURSIVE NodeKinds(_)
NodeKinds(statement) ==
    IF statement.secondary_part = None THEN <<statement.statement_type>>
    ELSE <<statement.statement_type>> \o NodeKinds(statement.secondary_part[1])

RECURSIVE TailNodes(_)
\* number of nodes whose secondary_part is None
TailNodes(statement) ==
    IF statement.secondary_part = None THEN 1
    ELSE TailNodes(statement.secondary_part[1])

RECURSIVE Joined(_, _, _)
\* strs[1] + sep + strs[2] + ... + sep + strs[n], built from the right end
Joined(strs, sep, n) ==
    IF n = 0 THEN <<>>
    ELSE IF n = 1 THEN strs[1]
    ELSE Joined(strs, sep, n - 1) \o sep \o strs[n]

SpaceJoined(texts) == Joined(texts, <<" ">>, Len(texts))
CommaJoined(strs) == Joined(strs, <<",", " ">>, Len(strs))

RECURSIVE Orderings(_)
\* every sequence that lists each element of S exactly once
Orderings(S) ==
    IF S = {} THEN {<<>>}
    ELSE UNION {{<<x>> \o q : q \in Orderings(S \ {x})} : x \in S}

IsBlank(c) == c \in {" ", "\t"}
EndsBlank(str) == Len(str) > 0 /\ IsBlank(str[Len(str)])
StartsBlank(str) == Len(str) > 0 /\ IsBlank(str[1])

TheModel == model[1]
TheQuery == query[1]
Compiled == ncomp >= 1 /\ compiled # None

\* ------------------------------------------------------------------ C1
\* C1: for a chain of n >= 1 nodes with any texts (empty ones included),
\* compile_statement returns text[0] + " " + ... + " " + text[n-1]; for a
\* single node, that node's text unchanged.
C1_CompileIsSpaceJoin ==
    (ncomp >= 1) =>
        /\ ~panicked
        /\ compiled = <<SpaceJoined(NodeTexts(TheQuery))>>
        /\ (Len(NodeTexts(TheQuery)) = 1 => compiled = <<TheQuery.query_part>>)

C1_Witness ==
    /\ ncomp >= 1
    /\ Len(NodeTexts(TheQuery)) = 3
    /\ NodeTexts(TheQuery)[1] = <<>>
    /\ NodeTexts(TheQuery)[3] = <<"b", " ">>
    /\ compiled = << <<" ">> \o NodeTexts(TheQuery)[2] \o <<" ", "b", " ">> >>

\* ------------------------------------------------------------------ C2
\* C2: every append turns a chain of n nodes into one of n+1 nodes whose
\* first n texts are unchanged and whose last node is the new fragment with
\* no successor; after k appends the chain has k+1 nodes, one node without
\* successor, and the fragments in the order of the calls.
C2_AppendAddsOneTailNode ==
    [][Len(calls') = Len(calls) + 1 =>
          /\ NodeTexts(query'[1]) = Append(NodeTexts(TheQuery), calls'[Len(calls')].frag)
          /\ Len(NodeTexts(query'[1])) = Len(calls') + 1
          /\ TailNodes(query'[1]) = 1
          /\ \A i \in 1..Len(calls') : NodeTexts(query'[1])[i + 1] = calls'[i].frag
      ]_vars

C2_Witness ==
    /\ Len(calls) = 2
    /\ calls[1].op = "where_clause"
    /\ calls[2].op = "values"
    /\ Len(NodeTexts(TheQuery)) = 3

\* ------------------------------------------------------------------ C3
\* C3: update aborts and returns no chain when fields is None; with fields
\* present (even empty) it returns the single node "UPDATE {name}".
C3_UpdateRequiresFields ==
    (factory = "update") =>
        IF TheModel.fields = None
        THEN panicked /\ query = None /\ compiled = None /\ calls = <<>>
        ELSE /\ ~panicked
             /\ query # None
             /\ (calls = <<>> =>
                    NodeTexts(TheQuery) = << <<"U","P","D","A","T","E"," ">> \o TheModel.name >>)

C3_Witness ==
    /\ factory = "update"
    /\ TheModel.fields = None
    /\ panicked

\* ------------------------------------------------------------------ C4
\* C4: only update on a model without fields fails; select, insert, delete,
\* every append with every input, and compile_statement always succeed.
C4_NoOtherFailure ==
    /\ panicked => (factory = "update" /\ TheModel.fields = None)
    /\ (factory \in {"select", "insert", "delete"}) => query # None
    /\ (ncomp >= 1) => compiled # None
    /\ (calls # <<>>) => (query # None /\ Len(NodeTexts(TheQuery)) = Len(calls) + 1)

C4_Witness ==
    /\ factory = "delete"
    /\ TheModel.fields = None
    /\ Len(calls) = 2
    /\ calls[1].op = "set"
    /\ calls[1].arg = {}
    /\ calls[2].op = "where_clause"
    /\ calls[2].arg = <<>>
    /\ Compiled

\* ------------------------------------------------------------------ C5
\* C5 as stated: the compiled string of a factory-built chain never starts
\* or ends with whitespace.
C5_NoOuterWhitespace ==
    Compiled => (~StartsBlank(compiled[1]) /\ ~EndsBlank(compiled[1]))

BlankEndingCall(call) ==
    \/ /\ call.op = "where_clause"
       /\ (call.arg = <<>> \/ EndsBlank(call.arg))
    \/ /\ call.op = "set"
       /\ (call.arg = {} \/ \E e \in call.arg : e[2] = <<>> \/ EndsBlank(e[2]))

\* C5 amended: the compiled string never starts with whitespace, and it
\* ends with whitespace only when the last append is a where_clause whose
\* condition is empty or ends in whitespace, or a set whose mapping is empty
\* or holds a value that is empty or ends in whitespace.
C5_OuterWhitespaceOnlyFromLastFragment ==
    Compiled =>
        /\ Len(compiled[1]) > 0
        /\ ~StartsBlank(compiled[1])
        /\ EndsBlank(compiled[1]) => (calls # <<>> /\ BlankEndingCall(calls[Len(calls)]))

C5_Witness ==
    /\ Compiled
    /\ Len(calls) = 2
    /\ calls[2].op = "where_clause"
    /\ calls[2].arg = <<>>
    /\ EndsBlank(compiled[1])

\* ------------------------------------------------------------------ C6
\* C6: select(m) is a single node compiling to "SELECT * FROM {name}" when
\* fields is None and to "SELECT f1, ..., fk FROM {name}" otherwise.
C6_SelectText ==
    (factory = "select" /\ calls = <<>>) =>
        /\ query # None
        /\ Len(NodeTexts(TheQuery)) = 1
        /\ Compiled =>
             compiled[1] =
                IF TheModel.fields = None
                THEN <<"S","E","L","E","C","T"," ","*"," ","F","R","O","M"," ">> \o TheModel.name
                ELSE <<"S","E","L","E","C","T"," ">> \o CommaJoined(TheModel.fields[1])
                        \o <<" ","F","R","O","M"," ">> \o TheModel.name

C6_Witness ==
    /\ factory = "select"
    /\ calls = <<>>
    /\ Compiled
    /\ TheModel.fields # None
    /\ Len(TheModel.fields[1]) = 2
    /\ TheModel.fields[1][1] # TheModel.fields[1][2]

\* ------------------------------------------------------------------ C7
\* C7: insert(m).values([v1..vk]) compiles to "INSERT INTO {name} VALUES
\* (v1, ..., vk)" without fields and to "INSERT INTO {name} (f1, ..., fj)
\* VALUES (v1, ..., vk)" with fields, joined by ", " in the given order.
C7_InsertValuesText ==
    (factory = "insert" /\ Len(calls) = 1 /\ calls[1].op = "values" /\ Compiled) =>
        compiled[1] =
            <<"I","N","S","E","R","T"," ","I","N","T","O"," ">> \o TheModel.name
            \o (IF TheModel.fields = None THEN <<>>
                ELSE <<" ","(">> \o CommaJoined(TheModel.fields[1]) \o <<")">>)
            \o <<" ","V","A","L","U","E","S"," ","(">> \o CommaJoined(calls[1].arg) \o <<")">>

C7_Witness ==
    /\ factory = "insert"
    /\ Len(calls) = 1
    /\ calls[1].op = "values"
    /\ Len(calls[1].arg) = 2
    /\ TheModel.fields # None
    /\ Len(TheModel.fields[1]) = 2
    /\ Compiled

\* ------------------------------------------------------------------ C8
PairText(e) == e[1] \o <<" ","="," ">> \o e[2]

\* C8: update(m).set(args).where_clause(c) compiles to "UPDATE {name} SET "
\* + P + " WHERE " + c, P being the "{key} = {value}" renderings of the
\* entries of args, each once, joined by ", ", in some order.
C8_UpdateSetWhereText ==
    (/\ factory = "update"
     /\ Len(calls) = 2
     /\ calls[1].op = "set"
     /\ calls[2].op = "where_clause"
     /\ Compiled) =>
        \E order \in Orderings(calls[1].arg) :
            compiled[1] =
                <<"U","P","D","A","T","E"," ">> \o TheModel.name
                \o <<" ","S","E","T"," ">>
                \o CommaJoined([i \in 1..Len(order) |-> PairText(order[i])])
                \o <<" ","W","H","E","R","E"," ">> \o calls[2].arg

C8_Witness ==
    /\ factory = "update"
    /\ Len(calls) = 2
    /\ calls[1].op = "set"
    /\ Cardinality(calls[1].arg) = 2
    /\ calls[2].op = "where_clause"
    /\ calls[2].arg = <<"i"," ","="," ","1">>
    /\ Compiled

\* ------------------------------------------------------------------ C9
\* C9: compile_statement leaves the chain as it was, and a second call with
\* no append in between returns the same string as the first.
C9_CompileReadOnlyIdempotent ==
    [][ncomp' = ncomp + 1 =>
          /\ query' = query
          /\ calls' = calls
          /\ (ncomp >= 1 => compiled' = compiled)
      ]_vars

C9_Witness ==
    /\ ncomp = 2
    /\ compiled # None
    /\ Len(calls) = 1
    /\ Len(NodeTexts(TheQuery)) = 2

\* ------------------------------------------------------------------ C10
FactoryKind ==
    [f \in {"select", "insert", "update", "delete"} |->
        CASE f = "select" -> "Select"
          [] f = "insert" -> "Insert"
          [] f = "update" -> "Update"
          [] f = "delete" -> "Delete"]

\* C10: every node of a reachable chain carries the kind of the factory
\* operation that created the chain.
C10_OneKindPerChain ==
    (query # None) =>
        \A i \in 1..Len(NodeKinds(TheQuery)) : NodeKinds(TheQuery)[i] = FactoryKind[factory]

C10_Witness ==
    /\ factory = "delete"
    /\ Len(calls) = 2
    /\ Len(NodeKinds(TheQuery)) = 3
====
